---- MODULE Spec2Model ----
(***************************************************************************)
(* A model of the IntSet class of IntSet.cpp: a set of distinct ints kept  *)
(* in a manually managed dynamic array (data, capacity, used).             *)
(*                                                                         *)
(* The free store is modelled explicitly: an IntSet object holds the       *)
(* address of its array, new[] and delete[] act on a heap of arrays.  The  *)
(* methods are operators on a machine state m (objects, heap, ghost        *)
(* membership history, pending return value); an action of the model runs  *)
(* one whole method call on the program state.                             *)
(***************************************************************************)
EXTENDS Integers, Sequences, FiniteSets, TLC

\* ---------------------------------------------------------------- bounds
NumValues == 3
MaxCap == 2
\* the number of calls the driving program makes
MaxCalls == 5

Values == 1..NumValues
\* capacity hints and resize requests, invalid ones (< 1) included
Hints == -1..MaxCap
\* the objects of the driving program: there are names for three at a time
\* (two operands and a result)
Insts == {"a", "b", "c"}
Addrs == 1..(Cardinality(Insts) + 1)

\* ------------------------------------------------------- program constants
\* IntSet.h (not part of the sources at hand) declares DEFAULT_CAPACITY
DEFAULT_CAPACITY == 1
\* the content of an array element that new int[n] left uninitialised
Junk == 0
\* a call is given an allowance of allocations that succeed; no call makes
\* more than NumValues + 1 allocations, so at NoFailure none fails
NoFailure == NumValues + 2

VARIABLES obj, heap, hist, status, fault, ret, calls

vars == <<obj, heap, hist, status, fault, ret, calls>>

\* ------------------------------------------------------------ free store
NoArray == [live |-> FALSE, cells |-> <<>>]

\* an object outside its lifetime (data is the null pointer)
NoObject == [alive |-> FALSE, data |-> 0, capacity |-> 0, used |-> 0]

FreshCells(n) == [k \in 0..(n - 1) |-> Junk]

FreeAddrs(m) == {a \in Addrs : ~m.heap[a].live}

MinOf(S) == CHOOSE x \in S : \A y \in S : x <= y

\* new int[n]: throws (m.ok becomes FALSE) when the allowance is used up or
\* no array is left; otherwise m.new is the address of a fresh array
Alloc(m, n) ==
    IF m.allow = 0 \/ FreeAddrs(m) = {}
    THEN [m EXCEPT !.ok = FALSE]
    ELSE LET a == MinOf(FreeAddrs(m))
         IN [m EXCEPT !.heap[a] = [live |-> TRUE, cells |-> FreshCells(n)],
                      !.new = a,
                      !.allow = @ - 1]

\* delete [] p
Free(m, p) ==
    IF p \in Addrs /\ m.heap[p].live
    THEN [m EXCEPT !.heap[p] = NoArray]
    ELSE [m EXCEPT !.fault = @ \cup {"badfree"}]

\* p[k] read as an rvalue
Rd(m, p, k) ==
    IF p \in Addrs /\ m.heap[p].live /\ k \in DOMAIN m.heap[p].cells
    THEN m.heap[p].cells[k]
    ELSE Junk

InBounds(m, p, k) ==
    p \in Addrs /\ m.heap[p].live /\ k \in DOMAIN m.heap[p].cells

\* p[k] = v
Wr(m, p, k, v) ==
    IF InBounds(m, p, k)
    THEN [m EXCEPT !.heap[p].cells[k] = v]
    ELSE [m EXCEPT !.fault = @ \cup {"oob"}]

\* a read of p[k], recorded when it is out of bounds
Touch(m, p, k) ==
    IF InBounds(m, p, k) THEN m ELSE [m EXCEPT !.fault = @ \cup {"oob"}]

\* a read of data[k] of object i as an element of the set, recorded when
\* it is out of bounds and when k is not below used
ReadLive(m, i, k) ==
    LET m1 == Touch(m, m.obj[i].data, k)
    IN IF k >= 0 /\ k < m.obj[i].used
       THEN m1
       ELSE [m1 EXCEPT !.fault = @ \cup {"stale"}]

\* ------------------------------------------------------- ghost membership
\* hist[i]: the current members of object i, ordered by the time their
\* current membership began (the successful add that made them members)
Without(s, v) == SelectSeq(s, LAMBDA x : x # v)

Range(s) == {s[k] : k \in DOMAIN s}

\* ---------------------------------------------------------------- methods
\* Each method takes the machine state m and the object i it is invoked on
\* and gives the machine state after the call, m.ret being what it returns.
\* After a failed allocation (m.ok = FALSE) the exception is in flight and
\* nothing more of the call is executed.

\* the live elements data[0 .. used - 1] of object i, in index order
LiveSeq(m, i) ==
    [k \in 1..m.obj[i].used |-> Rd(m, m.obj[i].data, k - 1)]

\* bool IntSet::contains(int anInt) const: the scan from index k on
RECURSIVE containsFrom(_, _, _, _)
containsFrom(m, i, anInt, k) ==
    IF k < m.obj[i].used
    THEN IF Rd(m, m.obj[i].data, k) = anInt
         THEN TRUE
         ELSE containsFrom(m, i, anInt, k + 1)
    ELSE FALSE

\* contains with its scan begun at index 1
contains_fromOne(m, i, anInt) ==
    IF m.obj[i].used > 0 THEN containsFrom(m, i, anInt, 1) ELSE FALSE

contains(m, i, anInt) ==
    IF m.obj[i].used > 0 THEN containsFrom(m, i, anInt, 0) ELSE FALSE

\* the reads contains makes, each recorded when it is out of bounds
RECURSIVE containsTouch(_, _, _, _)
containsTouch(m, i, anInt, k) ==
    IF k < m.obj[i].used
    THEN IF Rd(m, m.obj[i].data, k) = anInt
         THEN ReadLive(m, i, k)
         ELSE containsTouch(ReadLive(m, i, k), i, anInt, k + 1)
    ELSE m

\* the copying loop ending one element early
RECURSIVE copyLoop_short(_, _, _, _, _)
copyLoop_short(m, dst, src, n, k) ==
    IF k < n - 1
    THEN copyLoop_short(Wr(Touch(m, src, k), dst, k, Rd(m, src, k)),
                        dst, src, n, k + 1)
    ELSE m

\* for (int i = 0; i < n; ++i) dst[i] = src[i];  from index k on
RECURSIVE copyLoop(_, _, _, _, _)
copyLoop(m, dst, src, n, k) ==
    IF k < n
    THEN copyLoop(Wr(Touch(m, src, k), dst, k, Rd(m, src, k)), dst, src, n, k + 1)
    ELSE m

\* resize without the clamp to used
resizeCapacity_unclamped(used, new_capacity) ==
    IF new_capacity < 1 THEN DEFAULT_CAPACITY ELSE new_capacity

\* the capacity resize settles on for a request
resizeCapacity(used, new_capacity) ==
    LET c == IF new_capacity < used THEN used ELSE new_capacity
    IN IF c < 1 THEN DEFAULT_CAPACITY ELSE c

\* resize without the copying loop
resize_uncopied(m, i, new_capacity) ==
    LET nc == resizeCapacity(m.obj[i].used, new_capacity)
        m1 == [m EXCEPT !.obj[i].capacity = nc]
        m2 == Alloc(m1, nc)
    IN IF ~m2.ok
       THEN m2
       ELSE LET m4 == Free(m2, m2.obj[i].data)
            IN [m4 EXCEPT !.obj[i].data = m2.new]

\* void IntSet::resize(int new_capacity)
resize(m, i, new_capacity) ==
    LET nc == resizeCapacity(m.obj[i].used, new_capacity)
        m1 == [m EXCEPT !.obj[i].capacity = nc]
        m2 == Alloc(m1, nc)
    IN IF ~m2.ok
       THEN m2
       ELSE LET m3 == copyLoop(m2, m2.new, m2.obj[i].data, m2.obj[i].used, 0)
                m4 == Free(m3, m3.obj[i].data)
            IN [m4 EXCEPT !.obj[i].data = m3.new]

\* IntSet::IntSet(int initial_capacity)
construct(m, i, initial_capacity) ==
    LET c == IF initial_capacity < 1 THEN DEFAULT_CAPACITY ELSE initial_capacity
        m1 == Alloc(m, c)
    IN IF ~m1.ok
       THEN m1
       ELSE [m1 EXCEPT !.obj[i] = [alive |-> TRUE, data |-> m1.new,
                                   capacity |-> c, used |-> 0],
                       !.hist[i] = <<>>]

\* the copy constructor taking over the array of src
copyConstruct_shallow(m, i, src) ==
    [m EXCEPT !.obj[i] = [alive |-> TRUE, data |-> m.obj[src].data,
                          capacity |-> m.obj[src].capacity,
                          used |-> m.obj[src].used],
              !.hist[i] = m.hist[src]]

\* IntSet::IntSet(const IntSet& src)
copyConstruct(m, i, src) ==
    LET m1 == Alloc(m, m.obj[src].capacity)
    IN IF ~m1.ok
       THEN m1
       ELSE LET m2 == copyLoop(m1, m1.new, m1.obj[src].data, m1.obj[src].used, 0)
            IN [m2 EXCEPT !.obj[i] = [alive |-> TRUE, data |-> m1.new,
                                      capacity |-> m.obj[src].capacity,
                                      used |-> m.obj[src].used],
                          !.hist[i] = m.hist[src]]

\* the destructor leaving the array allocated
destruct_unreleased(m, i) ==
    [m EXCEPT !.obj[i] = NoObject, !.hist[i] = <<>>]

\* IntSet::~IntSet()
destruct(m, i) ==
    LET m1 == Free(m, m.obj[i].data)
    IN [m1 EXCEPT !.obj[i] = NoObject, !.hist[i] = <<>>]

\* assignment taking over the array of rhs
assign_shallow(m, i, rhs) ==
    IF i # rhs
    THEN LET m1 == Free(m, m.obj[i].data)
         IN [m1 EXCEPT !.obj[i].data = m.obj[rhs].data,
                       !.obj[i].capacity = m.obj[rhs].capacity,
                       !.obj[i].used = m.obj[rhs].used,
                       !.hist[i] = m.hist[rhs]]
    ELSE m

\* assignment without the test for self-assignment
assign_untested(m, i, rhs) ==
    LET m1 == Alloc(m, m.obj[rhs].capacity)
    IN IF ~m1.ok
       THEN m1
       ELSE LET m2 == copyLoop(m1, m1.new, m1.obj[rhs].data,
                               m1.obj[rhs].used, 0)
                m3 == Free(m2, m2.obj[i].data)
            IN [m3 EXCEPT !.obj[i].data = m1.new,
                          !.obj[i].capacity = m.obj[rhs].capacity,
                          !.obj[i].used = m.obj[rhs].used,
                          !.hist[i] = m.hist[rhs]]

\* IntSet& IntSet::operator=(const IntSet& rhs)
assign(m, i, rhs) ==
    IF i # rhs
    THEN LET m1 == Alloc(m, m.obj[rhs].capacity)
         IN IF ~m1.ok
            THEN m1
            ELSE LET m2 == copyLoop(m1, m1.new, m1.obj[rhs].data,
                                    m1.obj[rhs].used, 0)
                     m3 == Free(m2, m2.obj[i].data)
                 IN [m3 EXCEPT !.obj[i].data = m1.new,
                               !.obj[i].capacity = m.obj[rhs].capacity,
                               !.obj[i].used = m.obj[rhs].used,
                               !.hist[i] = m.hist[rhs]]
    ELSE m

\* reset giving up the capacity as well
reset_capacity(m, i) ==
    [m EXCEPT !.obj[i].used = 0, !.obj[i].capacity = DEFAULT_CAPACITY,
              !.hist[i] = <<>>]

\* void IntSet::reset()
reset(m, i) ==
    [m EXCEPT !.obj[i].used = 0, !.hist[i] = <<>>]

\* growth by one cell
grownCapacity_byOne(capacity) == capacity + 1

\* the capacity add asks of resize: int(1.5 * capacity) + 1
grownCapacity(capacity) == (3 * capacity) \div 2 + 1

\* the tail of add: data[used] = anInt; used++; return true;
addStore(m, i, anInt) ==
    LET m1 == Wr(m, m.obj[i].data, m.obj[i].used, anInt)
    IN [m1 EXCEPT !.obj[i].used = @ + 1,
                  !.ret = TRUE,
                  !.hist[i] = Append(Without(@, anInt), anInt)]

\* add without the membership test
add_unchecked(m, i, anInt) ==
    LET m1 == IF m.obj[i].used >= m.obj[i].capacity
              THEN resize(m, i, grownCapacity(m.obj[i].capacity))
              ELSE m
    IN IF ~m1.ok THEN m1 ELSE addStore(m1, i, anInt)

\* add without the call of resize
add_ungrown(m, i, anInt) ==
    LET m0 == containsTouch(m, i, anInt, 0)
    IN IF ~contains(m0, i, anInt)
       THEN addStore(m0, i, anInt)
       ELSE [m0 EXCEPT !.ret = FALSE]

\* bool IntSet::add(int anInt)
add(m, i, anInt) ==
    LET m0 == containsTouch(m, i, anInt, 0)
    IN IF ~contains(m0, i, anInt)
       THEN LET m1 == IF m0.obj[i].used >= m0.obj[i].capacity
                      THEN resize(m0, i, grownCapacity(m0.obj[i].capacity))
                      ELSE m0
            IN IF ~m1.ok THEN m1 ELSE addStore(m1, i, anInt)
       ELSE [m0 EXCEPT !.ret = FALSE]

\* the hole filled with the last element instead of the shift
shiftLoop_fill(m, i, j) ==
    IF j < m.obj[i].used
    THEN LET p == m.obj[i].data
         IN Wr(m, p, j - 1, Rd(m, p, m.obj[i].used - 1))
    ELSE m

\* for (int j = from; j < used; j++) data[j-1] = data[j];
RECURSIVE shiftLoop(_, _, _)
shiftLoop(m, i, j) ==
    IF j < m.obj[i].used
    THEN LET p == m.obj[i].data
         IN shiftLoop(Wr(ReadLive(m, i, j), p, j - 1, Rd(m, p, j)), i, j + 1)
    ELSE m

\* for (int i = k; i < used; i++) if (data[i] == anInt) <shiftLoop from i+1>
RECURSIVE removeLoop(_, _, _, _)
removeLoop(m, i, anInt, k) ==
    IF k < m.obj[i].used
    THEN LET m1 == ReadLive(m, i, k)
             m2 == IF Rd(m1, m1.obj[i].data, k) = anInt
                   THEN shiftLoop(m1, i, k + 1)
                   ELSE m1
         IN removeLoop(m2, i, anInt, k + 1)
    ELSE m

\* remove without the shift
remove_unshifted(m, i, anInt) ==
    IF contains(m, i, anInt)
    THEN [m EXCEPT !.obj[i].used = @ - 1,
                   !.ret = TRUE,
                   !.hist[i] = Without(@, anInt)]
    ELSE [m EXCEPT !.ret = FALSE]

\* bool IntSet::remove(int anInt)
remove(m, i, anInt) ==
    LET m0 == containsTouch(m, i, anInt, 0)
    IN IF contains(m0, i, anInt)
       THEN LET m1 == removeLoop(m0, i, anInt, 0)
            IN [m1 EXCEPT !.obj[i].used = @ - 1,
                          !.ret = TRUE,
                          !.hist[i] = Without(@, anInt)]
       ELSE [m0 EXCEPT !.ret = FALSE]

\* ----------------------------------------------------- derived operations
\* The result object (the local myUnionset, myIntersect, mySubset, which is
\* returned by value and constructed in place in the caller's object) is r.

\* for (int i = k; i < otherIntSet.size(); i++)
\*    if (!myUnionset.contains(otherIntSet.data[i])) myUnionset.add(...)
RECURSIVE unionLoop(_, _, _, _)
unionLoop(m, r, other, k) ==
    IF m.ok /\ k < m.obj[other].used
    THEN LET m1 == ReadLive(m, other, k)
             x == Rd(m1, m1.obj[other].data, k)
             m2 == containsTouch(m1, r, x, 0)
             m3 == IF ~contains(m2, r, x) THEN add(m2, r, x) ELSE m2
         IN unionLoop(m3, r, other, k + 1)
    ELSE m

\* unionWith begun from a copy of the other set
unionWith_fromOther(m, self, other, r) ==
    LET m1 == copyConstruct(m, r, other)
    IN IF ~m1.ok THEN m1 ELSE unionLoop(m1, r, self, 0)

\* IntSet IntSet::unionWith(const IntSet& otherIntSet) const
unionWith(m, self, other, r) ==
    LET m1 == copyConstruct(m, r, self)
    IN IF ~m1.ok THEN m1 ELSE unionLoop(m1, r, other, 0)

\* the loop of intersect run over the copy it removes from
RECURSIVE intersectLoop_overCopy(_, _, _, _, _)
intersectLoop_overCopy(m, r, self, other, k) ==
    IF k < m.obj[r].used
    THEN LET x == Rd(m, m.obj[r].data, k)
             m3 == IF ~contains(m, other, x) THEN remove(m, r, x) ELSE m
         IN intersectLoop_overCopy(m3, r, self, other, k + 1)
    ELSE m

\* for (int i = k; i < size(); i++)
\*    if (!otherIntSet.contains(data[i])) myIntersect.remove(data[i]);
RECURSIVE intersectLoop(_, _, _, _, _)
intersectLoop(m, r, self, other, k) ==
    IF k < m.obj[self].used
    THEN LET m1 == ReadLive(m, self, k)
             x == Rd(m1, m1.obj[self].data, k)
             m2 == containsTouch(m1, other, x, 0)
             m3 == IF ~contains(m2, other, x) THEN remove(m2, r, x) ELSE m2
         IN intersectLoop(m3, r, self, other, k + 1)
    ELSE m

\* IntSet IntSet::intersect(const IntSet& otherIntSet) const
intersect(m, self, other, r) ==
    LET m1 == copyConstruct(m, r, self)
    IN IF ~m1.ok THEN m1 ELSE intersectLoop(m1, r, self, other, 0)

\* the loop of subtract bounded by the size of the result
RECURSIVE subtractLoop_ownSize(_, _, _, _)
subtractLoop_ownSize(m, r, other, k) ==
    IF k < m.obj[r].used
    THEN LET x == Rd(m, m.obj[other].data, k)
             m3 == IF contains(m, r, x) THEN remove(m, r, x) ELSE m
         IN subtractLoop_ownSize(m3, r, other, k + 1)
    ELSE m

\* for (int i = k; i < otherIntSet.size(); i++)
\*    if (mySubset.contains(otherIntSet.data[i])) mySubset.remove(...)
RECURSIVE subtractLoop(_, _, _, _)
subtractLoop(m, r, other, k) ==
    IF k < m.obj[other].used
    THEN LET m1 == ReadLive(m, other, k)
             x == Rd(m1, m1.obj[other].data, k)
             m2 == containsTouch(m1, r, x, 0)
             m3 == IF contains(m2, r, x) THEN remove(m2, r, x) ELSE m2
         IN subtractLoop(m3, r, other, k + 1)
    ELSE m

\* IntSet IntSet::subtract(const IntSet& otherIntSet) const
subtract(m, self, other, r) ==
    LET m1 == copyConstruct(m, r, self)
    IN IF ~m1.ok THEN m1 ELSE subtractLoop(m1, r, other, 0)

\* ---------------------------------------------------------------- queries
\* bool IntSet::isEmpty() const
isEmpty(m, i) == m.obj[i].used = 0

\* the loop of isSubsetOf ending one element early
RECURSIVE subsetLoop_short(_, _, _, _)
subsetLoop_short(m, i, other, k) ==
    IF k < m.obj[i].used - 1
    THEN LET m1 == ReadLive(m, i, k)
             x == Rd(m1, m1.obj[i].data, k)
             m2 == containsTouch(m1, other, x, 0)
         IN IF ~contains(m2, other, x)
            THEN [m2 EXCEPT !.ret = FALSE]
            ELSE subsetLoop_short(m2, i, other, k + 1)
    ELSE [m EXCEPT !.ret = TRUE]

\* for (int i = k; i < this->size(); i++)
\*    if (!otherIntSet.contains(this->data[i])) return false;
\* return true;
RECURSIVE subsetLoop(_, _, _, _)
subsetLoop(m, i, other, k) ==
    IF k < m.obj[i].used
    THEN LET m1 == ReadLive(m, i, k)
             x == Rd(m1, m1.obj[i].data, k)
             m2 == containsTouch(m1, other, x, 0)
         IN IF ~contains(m2, other, x)
            THEN [m2 EXCEPT !.ret = FALSE]
            ELSE subsetLoop(m2, i, other, k + 1)
    ELSE [m EXCEPT !.ret = TRUE]

\* bool IntSet::isSubsetOf(const IntSet& otherIntSet) const
isSubsetOf(m, i, other) ==
    IF isEmpty(m, i)
    THEN [m EXCEPT !.ret = TRUE]
    ELSE subsetLoop(m, i, other, 0)

\* equality decided by one inclusion only
equals_oneWay(m, is1, is2) == isSubsetOf(m, is1, is2)

\* bool operator==(const IntSet& is1, const IntSet& is2)
equals(m, is1, is2) ==
    LET m1 == isSubsetOf(m, is1, is2)
    IN IF m1.ret THEN isSubsetOf(m1, is2, is1) ELSE m1

\* ------------------------------------------------------------ the program
Allowances == 0..NoFailure

\* the machine state a call starts from; allow allocations will succeed
Machine(allow) ==
    [obj |-> obj, heap |-> heap, hist |-> hist, fault |-> fault,
     ok |-> TRUE, allow |-> allow, new |-> 0, ret |-> FALSE]

\* The addresses new[] hands out carry no meaning of their own: the program
\* state is kept up to a renaming of addresses, the arrays being numbered in
\* the order a, b, c of the objects that point to them, any others after.
InstOrder == <<"a", "b", "c">>

RECURSIVE AddrOrder(_, _, _)
AddrOrder(m, k, acc) ==
    IF k > Len(InstOrder)
    THEN acc
    ELSE LET p == m.obj[InstOrder[k]].data
         IN IF p \in Addrs /\ p \notin Range(acc)
            THEN AddrOrder(m, k + 1, Append(acc, p))
            ELSE AddrOrder(m, k + 1, acc)

RECURSIVE Ascending(_)
Ascending(S) ==
    IF S = {} THEN <<>> ELSE <<MinOf(S)>> \o Ascending(S \ {MinOf(S)})

Renumber(m) ==
    IF /\ \A p \in Addrs : m.heap[p].live = heap[p].live
       /\ \A i \in Insts : m.obj[i].data = obj[i].data
    THEN m
    ELSE
    LET held == AddrOrder(m, 1, <<>>)
        order == held \o Ascending(Addrs \ Range(held))
        to == [p \in Addrs |-> CHOOSE n \in 1..Len(order) : order[n] = p]
    IN [m EXCEPT !.heap = [n \in Addrs |-> m.heap[order[n]]],
                 !.obj = [i \in Insts |->
                            IF m.obj[i].data \in Addrs
                            THEN [m.obj[i] EXCEPT !.data = to[@]]
                            ELSE m.obj[i]]]

\* the program state after a call: a failed allocation ends the program
Commit(m) ==
    \E n \in {Renumber(m)} :
       /\ obj' = n.obj
       /\ heap' = n.heap
       /\ hist' = n.hist
       /\ fault' = n.fault
       /\ status' = IF n.ok THEN "running" ELSE "terminated"
       /\ ret' = n.ret
       /\ calls' = calls + 1

\* the outcomes of a call: the one in which every allocation succeeds, and
\* one for each allocation of that run failing instead
Outcomes(Method(_)) ==
    LET full == Method(Machine(NoFailure))
        done == NoFailure - full.allow
    IN {[full EXCEPT !.allow = 0, !.new = 0]}
          \cup {[Method(Machine(al)) EXCEPT !.allow = 0, !.new = 0] :
                   al \in 0..(done - 1)}

\* one call is made, with one of its outcomes
Call(Method(_)) ==
    /\ status = "running"
    /\ calls < MaxCalls
    /\ \E m \in Outcomes(Method) : Commit(m)

Alive(i) == obj[i].alive

\* a new object takes the first name that is not in use
FirstFree(i) ==
    /\ ~Alive(i)
    /\ \A k \in 1..Len(InstOrder) :
          InstOrder[k] = i => \A j \in 1..(k - 1) : Alive(InstOrder[j])

Init ==
    /\ obj = [i \in Insts |-> NoObject]
    /\ heap = [a \in Addrs |-> NoArray]
    /\ hist = [i \in Insts |-> <<>>]
    /\ status = "running"
    /\ fault = {}
    /\ ret = FALSE
    /\ calls = 0

Create(i, hint) ==
    /\ FirstFree(i)
    /\ Call(LAMBDA m : construct(m, i, hint))

Copy(i, src) ==
    /\ FirstFree(i) /\ Alive(src)
    /\ Call(LAMBDA m : copyConstruct(m, i, src))

Assign(i, rhs) ==
    /\ Alive(i) /\ Alive(rhs)
    /\ Call(LAMBDA m : assign(m, i, rhs))

Destroy(i) ==
    /\ Alive(i)
    /\ Call(LAMBDA m : destruct(m, i))

Add(i, v) ==
    /\ Alive(i)
    /\ Call(LAMBDA m : add(m, i, v))

Remove(i, v) ==
    /\ Alive(i)
    /\ Call(LAMBDA m : remove(m, i, v))

Reset(i) ==
    /\ Alive(i)
    /\ Call(LAMBDA m : reset(m, i))

Resize(i, n) ==
    /\ Alive(i)
    /\ Call(LAMBDA m : resize(m, i, n))

UnionWith(self, other, r) ==
    /\ Alive(self) /\ Alive(other) /\ FirstFree(r)
    /\ Call(LAMBDA m : unionWith(m, self, other, r))

Intersect(self, other, r) ==
    /\ Alive(self) /\ Alive(other) /\ FirstFree(r)
    /\ Call(LAMBDA m : intersect(m, self, other, r))

Subtract(self, other, r) ==
    /\ Alive(self) /\ Alive(other) /\ FirstFree(r)
    /\ Call(LAMBDA m : subtract(m, self, other, r))

Next ==
    \/ \E i \in Insts, hint \in Hints : Create(i, hint)
    \/ \E i, src \in Insts : Copy(i, src)
    \/ \E i, rhs \in Insts : Assign(i, rhs)
    \/ \E i \in Insts : Destroy(i)
    \/ \E i \in Insts, v \in Values : Add(i, v)
    \/ \E i \in Insts, v \in Values : Remove(i, v)
    \/ \E i \in Insts : Reset(i)
    \/ \E i \in Insts, n \in Hints : Resize(i, n)
    \/ \E self, other, r \in Insts : UnionWith(self, other, r)
    \/ \E self, other, r \in Insts : Intersect(self, other, r)
    \/ \E self, other, r \in Insts : Subtract(self, other, r)

Spec == Init /\ [][Next]_vars

\* --------------------------------------------- operands drawn from a set
\* The derived operations are functions of their two operands.  Here the
\* program starts with operands a and b drawn from all sets of distinct
\* values in all orders, each as a default-constructed object holds it
\* after the values were added one by one, and makes two more calls: one
\* derived operation and one call on its result.

\* the sequences of distinct values
RECURSIVE Orders(_)
Orders(S) ==
    IF S = {} THEN {<<>>}
    ELSE UNION {{<<x>> \o t : t \in Orders(S \ {x})} : x \in S}

Operands == UNION {Orders(S) : S \in SUBSET Values}

\* the capacity of a default-constructed object after n values were added
RECURSIVE CapacityAfter(_)
CapacityAfter(n) ==
    IF n = 0 THEN DEFAULT_CAPACITY
    ELSE LET c == CapacityAfter(n - 1)
         IN IF n - 1 >= c THEN grownCapacity(c) ELSE c

CellsOf(s) ==
    [k \in 0..(CapacityAfter(Len(s)) - 1) |-> IF k < Len(s) THEN s[k + 1] ELSE Junk]

InitAlg ==
    \E sa, sb \in Operands :
       /\ obj = [i \in Insts |->
                   IF i = "a"
                   THEN [alive |-> TRUE, data |-> 1,
                         capacity |-> CapacityAfter(Len(sa)), used |-> Len(sa)]
                   ELSE IF i = "b"
                   THEN [alive |-> TRUE, data |-> 2,
                         capacity |-> CapacityAfter(Len(sb)), used |-> Len(sb)]
                   ELSE NoObject]
       /\ heap = [p \in Addrs |->
                   IF p = 1 THEN [live |-> TRUE, cells |-> CellsOf(sa)]
                   ELSE IF p = 2 THEN [live |-> TRUE, cells |-> CellsOf(sb)]
                   ELSE NoArray]
       /\ hist = [i \in Insts |->
                   IF i = "a" THEN sa ELSE IF i = "b" THEN sb ELSE <<>>]
       /\ status = "running"
       /\ fault = {}
       /\ ret = FALSE
       /\ calls = MaxCalls - 2

NextAlg ==
    \/ \E self, other, r \in Insts : UnionWith(self, other, r)
    \/ \E self, other, r \in Insts : Intersect(self, other, r)
    \/ \E self, other, r \in Insts : Subtract(self, other, r)
    \/ \E v \in Values : Add("c", v)
    \/ \E v \in Values : Remove("c", v)
    \/ Reset("c")

SpecAlg == InitAlg /\ [][NextAlg]_vars

\* ------------------------------------------------ queries of two operands
\* The two predicates on a pair of sets are functions of their operands.
\* Here the program starts with operands a and b drawn from all sets of
\* distinct values in all orders, each in an array of the least capacity
\* that holds it or of one cell more, and asks its questions of them.

\* the capacities operand s is drawn with
OperandCaps(s) ==
    LET c == IF Len(s) < 1 THEN DEFAULT_CAPACITY ELSE Len(s)
    IN {c, c + 1}

OperandCells(s, c) ==
    [k \in 0..(c - 1) |-> IF k < Len(s) THEN s[k + 1] ELSE Junk]

InitQuery ==
    \E sa, sb \in Operands :
       \E ca \in OperandCaps(sa), cb \in OperandCaps(sb) :
          /\ obj = [i \in Insts |->
                      IF i = "a"
                      THEN [alive |-> TRUE, data |-> 1,
                            capacity |-> ca, used |-> Len(sa)]
                      ELSE IF i = "b"
                      THEN [alive |-> TRUE, data |-> 2,
                            capacity |-> cb, used |-> Len(sb)]
                      ELSE NoObject]
          /\ heap = [p \in Addrs |->
                      IF p = 1 THEN [live |-> TRUE, cells |-> OperandCells(sa, ca)]
                      ELSE IF p = 2 THEN [live |-> TRUE, cells |-> OperandCells(sb, cb)]
                      ELSE NoArray]
          /\ hist = [i \in Insts |->
                      IF i = "a" THEN sa ELSE IF i = "b" THEN sb ELSE <<>>]
          /\ status = "running"
          /\ fault = {}
          /\ ret = FALSE
          /\ calls = MaxCalls - 1

\* a.isSubsetOf(b)
IsSubsetOf(i, other) ==
    /\ Alive(i) /\ Alive(other)
    /\ Call(LAMBDA m : isSubsetOf(m, i, other))

\* a == b
Equals(is1, is2) ==
    /\ Alive(is1) /\ Alive(is2)
    /\ Call(LAMBDA m : equals(m, is1, is2))

NextQuery ==
    \/ \E i, other \in Insts : IsSubsetOf(i, other)
    \/ \E is1, is2 \in Insts : Equals(is1, is2)

SpecQuery == InitQuery /\ [][NextQuery]_vars

\* ------------------------------------------------ copies of two operands
\* Operands a and b as default-constructed objects hold them after their
\* values were added one by one, and one call that makes a set from
\* another: the copy constructor making c, or an assignment between a and
\* b or of a set to itself.
InitCopy ==
    \E sa, sb \in Operands :
       /\ obj = [i \in Insts |->
                   IF i = "a"
                   THEN [alive |-> TRUE, data |-> 1,
                         capacity |-> CapacityAfter(Len(sa)), used |-> Len(sa)]
                   ELSE IF i = "b"
                   THEN [alive |-> TRUE, data |-> 2,
                         capacity |-> CapacityAfter(Len(sb)), used |-> Len(sb)]
                   ELSE NoObject]
       /\ heap = [p \in Addrs |->
                   IF p = 1 THEN [live |-> TRUE, cells |-> CellsOf(sa)]
                   ELSE IF p = 2 THEN [live |-> TRUE, cells |-> CellsOf(sb)]
                   ELSE NoArray]
       /\ hist = [i \in Insts |->
                   IF i = "a" THEN sa ELSE IF i = "b" THEN sb ELSE <<>>]
       /\ status = "running"
       /\ fault = {}
       /\ ret = FALSE
       /\ calls = MaxCalls - 1

NextCopy ==
    \/ \E i, src \in Insts : Copy(i, src)
    \/ \E i, rhs \in Insts : Assign(i, rhs)

SpecCopy == InitCopy /\ [][NextCopy]_vars

\* --------------------------------------------------- one set and its calls
\* One set a drawn from all sets of distinct values in all orders, in an
\* array of the least capacity that holds it or of one cell more, and two
\* calls on it.
InitOne ==
    \E sa \in Operands :
       \E ca \in OperandCaps(sa) :
          /\ obj = [i \in Insts |->
                      IF i = "a"
                      THEN [alive |-> TRUE, data |-> 1,
                            capacity |-> ca, used |-> Len(sa)]
                      ELSE NoObject]
          /\ heap = [p \in Addrs |->
                      IF p = 1 THEN [live |-> TRUE, cells |-> OperandCells(sa, ca)]
                      ELSE NoArray]
          /\ hist = [i \in Insts |-> IF i = "a" THEN sa ELSE <<>>]
          /\ status = "running"
          /\ fault = {}
          /\ ret = FALSE
          /\ calls = MaxCalls - 2

NextOne ==
    \/ \E i \in Insts, v \in Values : Add(i, v)
    \/ \E i \in Insts, v \in Values : Remove(i, v)
    \/ \E i \in Insts : Reset(i)
    \/ \E i \in Insts, n \in Hints : Resize(i, n)

SpecOne == InitOne /\ [][NextOne]_vars

\* ------------------------------------------------ observations of a state
\* the machine state of the program between calls
Now == Machine(NoFailure)

\* the live elements of object i in index order (what DumpData writes)
Live(i) == LiveSeq(Now, i)

\* the members of object i: what contains answers true for
Members(i) == {v \in Values : contains(Now, i, v)}

\* int IntSet::size() const
size(i) == obj[i].used

\* what a caller can observe of object i, and its capacity
Shape(i) ==
    [alive |-> obj[i].alive, used |-> obj[i].used,
     capacity |-> obj[i].capacity, live |-> Live(i)]

\* the same observation of object i in machine state m
ShapeIn(m, i) ==
    [alive |-> m.obj[i].alive, used |-> m.obj[i].used,
     capacity |-> m.obj[i].capacity, live |-> LiveSeq(m, i)]

Distinct(s) == \A j, k \in DOMAIN s : j # k => s[j] # s[k]

\* the index (from 1) at which x stands in s, 0 when it does not
IndexOf(s, x) ==
    IF x \in Range(s) THEN MinOf({k \in DOMAIN s : s[k] = x}) ELSE 0

\* ================================================================= claims

\* C1: add(v) of a member returns false and leaves size, contents and stored
\* order as they were; add(v) of a non-member returns true, raises the size
\* by exactly one, makes contains(v) true, puts v at the highest live index
\* (used - 1) and leaves every previous member at its index.
C1_AddContract ==
    \A i \in Insts, v \in Values :
       (obj[i].alive /\ status = "running") =>
          LET m == add(Now, i, v)
          IN IF v \in Members(i)
             THEN /\ m.ret = FALSE
                  /\ m.obj[i].used = size(i)
                  /\ LiveSeq(m, i) = Live(i)
             ELSE /\ m.ret = TRUE
                  /\ m.obj[i].used = size(i) + 1
                  /\ contains(m, i, v)
                  /\ Rd(m, m.obj[i].data, m.obj[i].used - 1) = v
                  /\ \A k \in 1..size(i) : LiveSeq(m, i)[k] = Live(i)[k]

\* an add into a full array has grown it and stored the new member last,
\* behind two earlier members
C1_Witness ==
    \E i \in Insts :
       /\ obj[i].alive /\ ret = TRUE /\ status = "running"
       /\ obj[i].used = 3 /\ obj[i].capacity = 4
       /\ hist[i] = Live(i)
       /\ heap[obj[i].data].cells[3] = Junk

\* C2: remove(v) of a non-member returns false and leaves size and contents
\* as they were; remove(v) of a member, wherever it stands, returns true,
\* makes contains(v) false, lowers the size by exactly one and leaves the
\* other members in their relative order.
C2_RemoveContract ==
    \A i \in Insts, v \in Values :
       (obj[i].alive /\ status = "running") =>
          LET m == remove(Now, i, v)
          IN IF v \notin Members(i)
             THEN /\ m.ret = FALSE
                  /\ m.obj[i].used = size(i)
                  /\ LiveSeq(m, i) = Live(i)
             ELSE /\ m.ret = TRUE
                  /\ ~contains(m, i, v)
                  /\ m.obj[i].used = size(i) - 1
                  /\ LiveSeq(m, i) = Without(Live(i), v)

\* a member that was not the last of three has been removed: the two left
\* stand in front, the shift has left a copy of the last one behind them
C2_Witness ==
    \E i \in Insts :
       /\ obj[i].alive /\ ret = TRUE /\ calls = MaxCalls
       /\ status = "running"
       /\ obj[i].used = 2 /\ obj[i].capacity = 4
       /\ heap[obj[i].data].cells[2] = heap[obj[i].data].cells[1]
       /\ heap[obj[i].data].cells[0] # heap[obj[i].data].cells[1]

\* C3: in every reachable state the values at positions [0, used) of an
\* object are pairwise distinct and are exactly its current members: the
\* values added to it (or copied into it) and not removed or reset since.
C3_DistinctMembers ==
    \A i \in Insts :
       obj[i].alive =>
          /\ Distinct(Live(i))
          /\ Range(Live(i)) = Range(hist[i])
          /\ Members(i) = Range(hist[i])

\* an object holds two members after a third was removed from it
C3_Witness ==
    \E i \in Insts :
       /\ obj[i].alive /\ status = "running"
       /\ obj[i].used = 2 /\ obj[i].capacity > 2
       /\ heap[obj[i].data].cells[2] \in Values
       /\ Range(Live(i)) = Range(hist[i])

\* C4: in every reachable state, of two members the one whose current
\* membership began earlier stands at the lower index; a value added again
\* after its removal counts from that add, an add of a member moves nothing.
C4_MembershipOrder ==
    \A i \in Insts :
       obj[i].alive =>
          \A x, y \in Range(hist[i]) :
             /\ IndexOf(Live(i), x) > 0
             /\ (IndexOf(Live(i), x) < IndexOf(Live(i), y)
                   <=> IndexOf(hist[i], x) < IndexOf(hist[i], y))

\* two members stand in the order they were added, which is not the order
\* of their values, in an array a removal has shifted
C4_Witness ==
    \E i \in Insts :
       /\ obj[i].alive /\ status = "running"
       /\ obj[i].used = 2 /\ calls = MaxCalls
       /\ Live(i)[1] > Live(i)[2]
       /\ hist[i] = Live(i)
       /\ heap[obj[i].data].cells[0] = heap[obj[i].data].cells[1] + 1

\* C5: in every reachable state an object has capacity >= 1 and
\* 0 <= used <= capacity, whatever capacity hint it was constructed with and
\* whatever resize was asked for; constructed with a hint below 1 it has
\* capacity DEFAULT_CAPACITY, and it is constructed empty.
C5_CapacityBounds ==
    /\ \A i \in Insts :
          obj[i].alive =>
             /\ obj[i].capacity >= 1
             /\ 0 <= obj[i].used
             /\ obj[i].used <= obj[i].capacity
    /\ \A i \in Insts, hint \in Hints :
          (~obj[i].alive /\ status = "running") =>
             LET m == construct(Now, i, hint)
             IN /\ m.obj[i].used = 0
                /\ m.obj[i].capacity =
                      IF hint < 1 THEN DEFAULT_CAPACITY ELSE hint

\* a resize of an object holding three members has settled on capacity 3,
\* which no hint and no growth step gives
C5_Witness ==
    \E i \in Insts :
       /\ obj[i].alive /\ status = "running"
       /\ obj[i].used = 3 /\ obj[i].capacity = 3

\* C6 as claimed: when an allocation fails, the program ends with every
\* object's used, capacity and live elements as they were before the call.
C6_NoTornState ==
    [][status' = "terminated" =>
          \A i \in Insts :
             obj[i].alive =>
                /\ obj'[i].used = obj[i].used
                /\ obj'[i].capacity = obj[i].capacity
                /\ Live(i)' = Live(i)]_vars

\* the elements of s that are not elements of t, in the order of s
Excl(s, t) == SelectSeq(s, LAMBDA x : x \notin Range(t))

\* the elements of s that are elements of t, in the order of s
Common(s, t) == SelectSeq(s, LAMBDA x : x \in Range(t))

\* C7: A.unionWith(B) returns a set whose members are the members of A and
\* those of B, stored as A's live sequence followed by the elements of B
\* that are not in A, in B's order.
C7_UnionOrder ==
    \A self, other, r \in Insts :
       (/\ status = "running"
        /\ obj[self].alive /\ obj[other].alive /\ ~obj[r].alive) =>
          LET m == unionWith(Now, self, other, r)
          IN /\ LiveSeq(m, r) = Live(self) \o Excl(Live(other), Live(self))
             /\ {v \in Values : contains(m, r, v)}
                   = Members(self) \cup Members(other)

\* the union of [1,2] and [2,3] has just been returned as [1,2,3]
C7_Witness ==
    /\ status = "running" /\ calls = MaxCalls - 1
    /\ Live("a") = <<1, 2>> /\ Live("b") = <<2, 3>>
    /\ obj["c"].alive /\ Live("c") = <<1, 2, 3>>

\* C8: A.intersect(B) returns a set whose members are the values in both A
\* and B, stored in A's relative order.
C8_IntersectOrder ==
    \A self, other, r \in Insts :
       (/\ status = "running"
        /\ obj[self].alive /\ obj[other].alive /\ ~obj[r].alive) =>
          LET m == intersect(Now, self, other, r)
          IN /\ LiveSeq(m, r) = Common(Live(self), Live(other))
             /\ {v \in Values : contains(m, r, v)}
                   = Members(self) \cap Members(other)

\* the intersection of [1,2,3] and [3,1] has just been returned as [1,3]
C8_Witness ==
    /\ status = "running" /\ calls = MaxCalls - 1
    /\ Live("a") = <<1, 2, 3>> /\ Live("b") = <<3, 1>>
    /\ obj["c"].alive /\ Live("c") = <<1, 3>>

\* C9: A.subtract(B) returns a set whose members are the values of A that
\* are not in B, stored in A's relative order.
C9_SubtractOrder ==
    \A self, other, r \in Insts :
       (/\ status = "running"
        /\ obj[self].alive /\ obj[other].alive /\ ~obj[r].alive) =>
          LET m == subtract(Now, self, other, r)
          IN /\ LiveSeq(m, r) = Excl(Live(self), Live(other))
             /\ {v \in Values : contains(m, r, v)}
                   = Members(self) \ Members(other)

\* [3,1,2] less [2,3] has just been returned as [1]
C9_Witness ==
    /\ status = "running" /\ calls = MaxCalls - 1
    /\ Live("a") = <<3, 1, 2>> /\ Live("b") = <<2, 3>>
    /\ obj["c"].alive /\ Live("c") = <<1>>

\* C10: unionWith, intersect and subtract leave used, capacity and live
\* sequence of both operands as they were, and a later add, remove or reset
\* of the set they returned leaves the operands as they were too.
C10_OperandsUnchanged ==
    [][/\ \A self, other, r \in Insts :
             (\/ UnionWith(self, other, r)
              \/ Intersect(self, other, r)
              \/ Subtract(self, other, r)) =>
                /\ r \notin {self, other}
                /\ Shape(self)' = Shape(self)
                /\ Shape(other)' = Shape(other)
       /\ \A v \in Values :
             (Add("c", v) \/ Remove("c", v) \/ Reset("c")) =>
                /\ Shape("a")' = Shape("a")
                /\ Shape("b")' = Shape("b")]_vars

\* a member has been removed from a set returned for the operands [1,2] and
\* [2,3], which are as they were
C10_Witness ==
    /\ status = "running" /\ calls = MaxCalls /\ ret = TRUE
    /\ Live("a") = <<1, 2>> /\ Live("b") = <<2, 3>>
    /\ obj["c"].alive /\ Live("c") = <<1, 3>>
    /\ heap[obj["c"].data].cells[2] = 3

\* C11: a == b is true exactly when a and b hold the same members, whatever
\* the order the members are stored in and whatever the two capacities; it
\* is true of a set and itself, gives the same answer with its operands
\* exchanged, and is true of two empty sets.
C11_Equality ==
    \A i, j \in Insts :
       (obj[i].alive /\ obj[j].alive /\ status = "running") =>
          LET m == equals(Now, i, j)
          IN /\ m.ret = (Range(Live(i)) = Range(Live(j)))
             /\ equals(Now, i, i).ret
             /\ m.ret = equals(Now, j, i).ret
             /\ ((size(i) = 0 /\ size(j) = 0) => m.ret)
             /\ m.obj = obj /\ m.heap = heap

\* a == b answered true for the same members stored in different orders
\* and in arrays of different capacities
C11_Witness ==
    /\ status = "running" /\ calls = MaxCalls /\ ret = TRUE
    /\ Live("a") = <<3, 1, 2>> /\ Live("b") = <<1, 3, 2>>
    /\ obj["a"].capacity # obj["b"].capacity

\* C12: a.isSubsetOf(b) is true exactly when every live element of a is a
\* member of b; an empty set is a subset of every set, of an empty one and
\* of itself as well.
C12_SubsetOf ==
    \A i, j \in Insts :
       (obj[i].alive /\ obj[j].alive /\ status = "running") =>
          /\ isSubsetOf(Now, i, j).ret =
                (\A k \in 1..size(i) : contains(Now, j, Live(i)[k]))
          /\ isSubsetOf(Now, i, j).ret = (Range(Live(i)) \subseteq Range(Live(j)))
          /\ (size(i) = 0 => isSubsetOf(Now, i, j).ret)
          /\ isSubsetOf(Now, i, j).obj = obj /\ isSubsetOf(Now, i, j).heap = heap

\* the empty set found a subset of a set of two, and of itself
C12_Witness ==
    /\ status = "running" /\ calls = MaxCalls /\ ret = TRUE
    /\ Live("a") = <<>> /\ Live("b") = <<2, 1>>
    /\ isSubsetOf(Now, "a", "a").ret /\ ~isSubsetOf(Now, "b", "a").ret

\* C13: a set made from another by the copy constructor or by assignment
\* has an array of its own: add, remove and reset on the copy leave the
\* size, members, order and capacity of the source as they were, and the
\* same calls on the source leave the copy as it was.
C13_CopyIndependence ==
    \A src \in Insts :
       (obj[src].alive /\ status = "running") =>
          \A i \in Insts \ {src} :
             LET m == IF obj[i].alive
                      THEN assign(Now, i, src)
                      ELSE copyConstruct(Now, i, src)
             IN /\ m.ok
                /\ m.obj[i].data # m.obj[src].data
                /\ (obj[i].alive => obj[i].data # obj[src].data)
                /\ ShapeIn(m, src) = Shape(src)
                /\ \A v \in Values :
                      /\ ShapeIn(add(m, i, v), src) = Shape(src)
                      /\ ShapeIn(remove(m, i, v), src) = Shape(src)
                      /\ ShapeIn(reset(m, i), src) = Shape(src)
                      /\ ShapeIn(add(m, src, v), i) = ShapeIn(m, i)
                      /\ ShapeIn(remove(m, src, v), i) = ShapeIn(m, i)
                      /\ ShapeIn(reset(m, src), i) = ShapeIn(m, i)

\* c was copy-constructed from a holding 2 and 1: the two have arrays of
\* their own, and 3 added to c leaves a as it is
C13_Witness ==
    /\ status = "running" /\ calls = MaxCalls
    /\ obj["c"].alive /\ obj["c"].data # obj["a"].data
    /\ Live("a") = <<2, 1>> /\ Live("c") = <<2, 1>>
    /\ LiveSeq(add(Now, "c", 3), "c") = <<2, 1, 3>>
    /\ ShapeIn(add(Now, "c", 3), "a") = Shape("a")

\* C14: a set assigned to itself is left as it is: size, capacity, members
\* and the order DumpData writes are the same, and its array is the same
\* array, neither released nor replaced by another.
C14_SelfAssign ==
    \A i \in Insts :
       (obj[i].alive /\ status = "running") =>
          LET m == assign(Now, i, i)
          IN /\ m.ok /\ m.fault = fault
             /\ ShapeIn(m, i) = Shape(i)
             /\ {v \in Values : contains(m, i, v)} = Members(i)
             /\ m.obj[i].data = obj[i].data
             /\ m.heap = heap
             /\ m.allow = NoFailure
             /\ m.obj = obj

\* a of three values in an array of four was assigned to itself: nothing
\* was made, and a and b are the different sets they were
C14_Witness ==
    /\ status = "running" /\ calls = MaxCalls
    /\ ~obj["c"].alive
    /\ Live("a") = <<3, 1, 2>> /\ obj["a"].capacity = 4
    /\ Live("b") = <<1>> /\ obj["b"].capacity = 1
    /\ heap[obj["a"].data].cells[3] = Junk

\* C19: the copy constructor, and assignment to a set other than the
\* source, leave the target with the used, the capacity and the live
\* elements in order of the source at the call, whatever the target held
\* and whatever its used and capacity were before.
C19_CopyEqualsSource ==
    \A src \in Insts :
       (obj[src].alive /\ status = "running") =>
          \A i \in Insts \ {src} :
             LET m == IF obj[i].alive
                      THEN assign(Now, i, src)
                      ELSE copyConstruct(Now, i, src)
             IN /\ m.ok /\ m.fault = fault
                /\ m.obj[i].alive
                /\ m.obj[i].used = obj[src].used
                /\ m.obj[i].capacity = obj[src].capacity
                /\ LiveSeq(m, i) = Live(src)
                /\ DOMAIN m.heap[m.obj[i].data].cells = 0..(obj[src].capacity - 1)
                /\ ShapeIn(m, src) = Shape(src)

\* c was copy-constructed from a of three values, and b of one value in an
\* array of one cell would equal a after b = a
C19_Witness ==
    /\ status = "running" /\ calls = MaxCalls
    /\ obj["c"].alive /\ Shape("c") = Shape("a")
    /\ Live("a") = <<3, 1, 2>> /\ obj["a"].capacity = 4
    /\ Live("b") = <<2>> /\ obj["b"].capacity = 1
    /\ ShapeIn(assign(Now, "b", "a"), "b") = Shape("a")

\* C15: reset() sets used to 0 and leaves capacity and the array alone:
\* after it the set is empty, of size 0, contains is false of every value,
\* and a second reset changes nothing; the values that were live before it
\* are not members after it, also once another value has been added.
C15_Reset ==
    \A i \in Insts :
       (obj[i].alive /\ status = "running") =>
          LET m == reset(Now, i)
          IN /\ m.obj[i].used = 0
             /\ m.obj[i].capacity = obj[i].capacity
             /\ m.obj[i].data = obj[i].data /\ m.heap = heap
             /\ isEmpty(m, i)
             /\ \A v \in Values : ~contains(m, i, v)
             /\ reset(m, i) = m
             /\ \A w \in Values :
                   /\ {v \in Values : contains(add(m, i, w), i, v)} = {w}
                   /\ {v \in Values : contains(remove(add(m, i, w), i, w), i, v)} = {}

\* a of 3, 1, 2 was reset: it is empty in its array of three cells, which
\* still holds the three values
C15_Witness ==
    /\ status = "running" /\ calls = MaxCalls - 1
    /\ obj["a"].used = 0 /\ obj["a"].capacity = 3
    /\ heap[obj["a"].data].cells = [k \in 0..2 |-> <<3, 1, 2>>[k + 1]]
    /\ Members("a") = {}

\* add called for each value of s in turn
RECURSIVE addAll(_, _, _)
addAll(m, i, s) ==
    IF s = <<>> THEN m ELSE addAll(add(m, i, Head(s)), i, Tail(s))

\* C16: add of a value that is not a member to a set with used = capacity
\* = c leaves the capacity at floor(1.5 * c) + 1, the c elements at the
\* indices they had and the value at index c; with used < capacity add
\* leaves the capacity as it is.  So DEFAULT_CAPACITY + 1 distinct values
\* added to a default-constructed set give a set of that size containing
\* each of them.
C16_Growth ==
    /\ \A i \in Insts, v \in Values :
          (obj[i].alive /\ status = "running" /\ v \notin Members(i)) =>
             LET m == add(Now, i, v)
                 c == obj[i].capacity
                 nc == m.obj[i].capacity
             IN /\ m.ok /\ m.ret = TRUE
                /\ IF size(i) = c
                   THEN /\ 2 * (nc - 1) <= 3 * c /\ 3 * c < 2 * (nc - 1) + 2
                        /\ DOMAIN m.heap[m.obj[i].data].cells = 0..(nc - 1)
                        /\ \A k \in 0..(c - 1) :
                              Rd(m, m.obj[i].data, k) = Rd(Now, obj[i].data, k)
                        /\ Rd(m, m.obj[i].data, c) = v
                   ELSE /\ nc = c
                        /\ m.obj[i].data = obj[i].data
    /\ \A i \in Insts, s \in Operands :
          (FirstFree(i) /\ status = "running" /\ Len(s) = DEFAULT_CAPACITY + 1) =>
             LET m == addAll(construct(Now, i, DEFAULT_CAPACITY), i, s)
             IN /\ m.ok
                /\ m.obj[i].used = DEFAULT_CAPACITY + 1
                /\ \A k \in 1..Len(s) : contains(m, i, s[k])
                /\ LiveSeq(m, i) = s

\* add returned true and a is full with 1 and 2 in two cells: adding 3
\* takes it to four cells with 1, 2, 3 at indices 0, 1, 2
C16_Witness ==
    /\ status = "running" /\ calls = MaxCalls - 1 /\ ret = TRUE
    /\ Live("a") = <<1, 2>> /\ obj["a"].capacity = 2
    /\ add(Now, "a", 3).obj["a"].capacity = 4
    /\ LiveSeq(add(Now, "a", 3), "a") = <<1, 2, 3>>

\* the requests resize is given here
Requests == (0 - 2)..(NumValues + 1)

\* C17: resize(n) sets capacity to n when n >= used and n >= 1, to used
\* when n < used and used >= 1, and to DEFAULT_CAPACITY when the request
\* raised to used is still below 1; used and the live elements in order
\* are as before, in an array of the new capacity.
C17_Resize ==
    \A i \in Insts, n \in Requests :
       (obj[i].alive /\ status = "running") =>
          LET m == resize(Now, i, n)
              u == size(i)
          IN /\ m.ok
             /\ ((n >= u /\ n >= 1) => m.obj[i].capacity = n)
             /\ ((n < u /\ u >= 1) => m.obj[i].capacity = u)
             /\ ((n < 1 /\ u < 1) => m.obj[i].capacity = DEFAULT_CAPACITY)
             /\ m.obj[i].used = u
             /\ LiveSeq(m, i) = Live(i)
             /\ DOMAIN m.heap[m.obj[i].data].cells = 0..(m.obj[i].capacity - 1)
             /\ m.heap[m.obj[i].data].live

\* a of 3, 1, 2 is in an array of exactly three cells after a call that
\* returned nothing, as after resize(2)
C17_Witness ==
    /\ status = "running" /\ calls = MaxCalls - 1 /\ ret = FALSE
    /\ Live("a") = <<3, 1, 2>> /\ obj["a"].capacity = 3
    /\ ShapeIn(resize(Now, "a", 2), "a") = Shape("a")

\* C18: through every sequence of constructions, copies, assignments, adds,
\* resizes and destructions no array is released that is not a live array
\* (none twice), none is read or written after its release, every live
\* object's data is a live array, no two live objects have the same array,
\* and every live array is the array of a live object (none leaked: resize
\* and assignment released the old one, destruction the current one).
C18_ResourceDiscipline ==
    /\ fault = {}
    /\ \A i \in Insts :
          obj[i].alive => (obj[i].data \in Addrs /\ heap[obj[i].data].live)
    /\ \A i, j \in Insts :
          (obj[i].alive /\ obj[j].alive /\ i # j) => obj[i].data # obj[j].data
    /\ \A p \in Addrs :
          heap[p].live => \E i \in Insts : obj[i].alive /\ obj[i].data = p
    /\ Cardinality({p \in Addrs : heap[p].live}) =
          Cardinality({i \in Insts : obj[i].alive})

\* a was destroyed, and b, constructed after a, has grown to two elements:
\* the one live array is b's
C18_Witness ==
    /\ status = "running" /\ calls = MaxCalls
    /\ ~obj["a"].alive /\ obj["b"].alive /\ ~obj["c"].alive
    /\ obj["b"].used = 2
    /\ {p \in Addrs : heap[p].live} = {obj["b"].data}

\* the accesses of set contents that stay inside the arrays: none made so
\* far was outside its array or at an index not below used, every live
\* object has 0 <= used <= capacity in an array of capacity cells, every
\* element contains and isSubsetOf read is of that kind, and add stores at
\* index used with used below the capacity it then has
AccessesInBounds ==
    /\ fault = {}
    /\ status = "running" =>
          \A i \in Insts :
             obj[i].alive =>
                /\ heap[obj[i].data].live
                /\ DOMAIN heap[obj[i].data].cells = 0..(obj[i].capacity - 1)
                /\ 0 <= obj[i].used /\ obj[i].used <= obj[i].capacity
                /\ \A v \in Values : containsTouch(Now, i, v, 0).fault = {}
                /\ \A j \in Insts :
                      obj[j].alive => isSubsetOf(Now, i, j).fault = {}
                /\ LET c == IF obj[i].used >= obj[i].capacity
                            THEN resizeCapacity(obj[i].used,
                                                grownCapacity(obj[i].capacity))
                            ELSE obj[i].capacity
                   IN obj[i].used < c

\* C20 as stated: no access is outside its array, and the copying loops of
\* resize and of assignment write fewer elements than the new array has
\* cells.
C20_WritesFewer ==
    /\ AccessesInBounds
    /\ status = "running" =>
          \A i \in Insts :
             obj[i].alive =>
                /\ \A n \in Requests :
                      obj[i].used < resizeCapacity(obj[i].used, n)
                /\ obj[i].used < obj[i].capacity

\* C20: no operation reads or writes outside an array: every index used
\* is in [0, capacity) of the array accessed, every read of an element is
\* at an index in [0, used), add stores at index used only with used below
\* capacity, and the copying loops of resize and of assignment write no
\* more elements than the new array has cells.
C20_InBounds ==
    /\ AccessesInBounds
    /\ status = "running" =>
          \A i \in Insts :
             obj[i].alive =>
                /\ \A n \in Requests :
                      obj[i].used <= resizeCapacity(obj[i].used, n)
                /\ obj[i].used <= obj[i].capacity

\* a full set of three in an array of three cells, as resize leaves it
\* when asked for less: its copying loop wrote three elements into an
\* array of three cells, and would again for resize(0)
C20_Witness ==
    /\ status = "running" /\ fault = {}
    /\ obj["a"].alive /\ obj["a"].used = 3 /\ obj["a"].capacity = 3
    /\ resizeCapacity(obj["a"].used, 0) = 3
    /\ DOMAIN heap[obj["a"].data].cells = 0..2

====
